---- MODULE Spec2Model ----
(***************************************************************************)
(* A model of src/main.py: the Streamlit stock dashboard's single run of   *)
(* main() (range resolution, fetch loop, chart, export, metrics, news)     *)
(* and the pure computations it uses (get_date_range, calculate_returns,  *)
(* the chart's CAGR annotation, the market-cap formatting).                *)
(*                                                                         *)
(* Dates are proleptic Gregorian ordinals, as datetime.date.toordinal().   *)
(* Floating-point results are modelled exactly: a quotient is a reduced    *)
(* rational, x ** y is a symbolic power of two reduced rationals, and the  *)
(* IEEE specials numpy.float64 produces (inf, -inf, nan) are values.       *)
(***************************************************************************)
EXTENDS Integers, Sequences, FiniteSets, TLC

VARIABLES
    pc,               \* position of the run inside main()
    today,            \* datetime.now().date()
    selected_range,   \* the sidebar's selected range name
    custom_start,     \* value of the "Start date" widget (used by 'Custom')
    custom_end,       \* value of the "End date" widget (used by 'Custom')
    start_date,       \* main()'s start_date (None for 'Maximum')
    end_date,         \* main()'s end_date
    selected_symbols, \* main()'s selected_symbols list
    default_symbol,   \* the primary symbol text input
    fetched,          \* how many symbols the fetch loop has gone through
    data,             \* main()'s data dict: symbol -> fetched table
    outcomes,         \* per loop iteration, what yf.download did (ghost)
    ui,               \* what the page has shown so far, in order
    remote,           \* remote calls issued so far, in order
    chart,            \* per charted position: symbol and CAGR annotation
    exports,          \* symbols offered a CSV download, in order
    metrics,          \* per metrics iteration: what was displayed
    NYT_API_KEY,      \* os.environ.get('NYT_API_KEY')
    news_env,         \* what the news request does in this run: raises, or
                      \* answers with this status or body
    info_env,         \* what yf.Ticker(symbol).info does in this run: raises,
                      \* or returns this dict
    displayed,        \* articles written to the page, in order
    news_export,      \* rows handed to export_news_to_csv, or NoExport
    company_name,     \* main()'s company_name
    fn_in,            \* input of the pure function under check
    fn_out            \* its result

vars == <<pc, today, selected_range, custom_start, custom_end, start_date,
          end_date, selected_symbols, default_symbol, fetched, data, outcomes,
          ui, remote, chart, exports, metrics, NYT_API_KEY, news_env, info_env,
          displayed, news_export, company_name, fn_in, fn_out>>

\* Python's None. Date ordinals start at 1 (date.min), so 0 is no date.
None == 0

-----------------------------------------------------------------------------
(* datetime.date arithmetic, as CPython's datetime module computes it.      *)

IsLeap(y) == y % 4 = 0 /\ (y % 100 # 0 \/ y % 400 = 0)

DaysInMonth(y, m) ==
    IF m = 2 THEN (IF IsLeap(y) THEN 29 ELSE 28)
    ELSE IF m \in {4, 6, 9, 11} THEN 30 ELSE 31

RECURSIVE DaysBeforeMonth(_, _)
DaysBeforeMonth(y, m) ==
    IF m = 1 THEN 0 ELSE DaysBeforeMonth(y, m - 1) + DaysInMonth(y, m - 1)

DaysBeforeYear(y) ==
    (y - 1) * 365 + (y - 1) \div 4 - (y - 1) \div 100 + (y - 1) \div 400

\* date(y, m, d).toordinal()
Ord(y, m, d) == DaysBeforeYear(y) + DaysBeforeMonth(y, m) + d

\* date.fromordinal(n) as a record [year, month, day]
YMD(n) ==
    LET n0   == n - 1
        n400 == n0 \div 146097
        r400 == n0 % 146097
        n100 == r400 \div 36524
        r100 == r400 % 36524
        n4   == r100 \div 1461
        r4   == r100 % 1461
        n1   == r4 \div 365
        r1   == r4 % 365
        y    == n400 * 400 + 1 + n100 * 100 + n4 * 4 + n1
    IN  IF n1 = 4 \/ n100 = 4
        THEN [year |-> y - 1, month |-> 12, day |-> 31]
        ELSE LET m0 == (r1 + 50) \div 32
                 p0 == DaysBeforeMonth(y, m0)
                 m  == IF p0 > r1 THEN m0 - 1 ELSE m0
                 p  == DaysBeforeMonth(y, m)
             IN  [year |-> y, month |-> m, day |-> r1 - p + 1]

\* A plausible slip: the offset added instead of subtracted.
MinusDaysAdded(d, n) == d + n

\* end_date - timedelta(days=n)
MinusDays(d, n) == d - n

\* end_date.replace(day=1)
ReplaceDay1(d) == Ord(YMD(d).year, YMD(d).month, 1)

\* end_date.replace(month=1, day=1)
ReplaceMonth1Day1(d) == Ord(YMD(d).year, 1, 1)

-----------------------------------------------------------------------------
(* get_date_range, main.py:61-93                                           *)

date_ranges ==
    <<"1D", "5D", "MTD", "6M", "YTD", "1 Year", "5 Years", "10 Years",
      "15 Years", "20 Years", "30 Years", "Maximum", "Custom">>

RangeNames == {date_ranges[i] : i \in 1..Len(date_ranges)}

\* get_date_range(selected_range): <<start_date, end_date>>. in_start and
\* in_end are what the two date_input widgets of the 'Custom' branch return.
get_date_range(range, now, in_start, in_end) ==
    LET end == now
    IN  CASE range = "1D"       -> <<MinusDays(end, 1), end>>
          [] range = "5D"       -> <<MinusDays(end, 5), end>>
          [] range = "MTD"      -> <<ReplaceDay1(end), end>>
          [] range = "6M"       -> <<MinusDays(end, 180), end>>
          [] range = "YTD"      -> <<ReplaceMonth1Day1(end), end>>
          [] range = "1 Year"   -> <<MinusDays(end, 365), end>>
          [] range = "5 Years"  -> <<MinusDays(end, 365 * 5), end>>
          [] range = "10 Years" -> <<MinusDays(end, 365 * 10), end>>
          [] range = "15 Years" -> <<MinusDays(end, 365 * 15), end>>
          [] range = "20 Years" -> <<MinusDays(end, 365 * 20), end>>
          [] range = "30 Years" -> <<MinusDays(end, 365 * 30), end>>
          [] range = "Maximum"  -> <<None, end>>
          [] OTHER              -> <<in_start, in_end>>

-----------------------------------------------------------------------------
(* Numbers. A float is modelled exactly: a reduced rational, an IEEE        *)
(* special, or the symbolic value (b ** e - 1) * times of two rationals.    *)

Abs(x) == IF x < 0 THEN -x ELSE x

RECURSIVE GCD(_, _)
GCD(a, b) == IF b = 0 THEN a ELSE GCD(b, a % b)

\* the rational n/d, d # 0, in lowest terms with a positive denominator
Rat(n, d) ==
    LET g == GCD(Abs(n), Abs(d))
        s == IF d < 0 THEN -1 ELSE 1
    IN  [k |-> "rat", n |-> s * (n \div g), d |-> s * (d \div g)]

Zero == Rat(0, 1)
Inf == [k |-> "inf"]
NegInf == [k |-> "-inf"]
NaN == [k |-> "nan"]

\* numpy.float64 division of the integers a / b: no exception on b = 0
FloatDiv(a, b) ==
    IF b # 0 THEN Rat(a, b)
    ELSE IF a > 0 THEN Inf ELSE IF a < 0 THEN NegInf ELSE NaN

\* 1 + x
OnePlus(x) == IF x.k = "rat" THEN Rat(x.d + x.n, x.d) ELSE x

\* 1 / x for a rational x > 0
Inverse(x) == Rat(x.d, x.n)

\* (b ** e - 1) * times, for a float b and a rational e > 0 that is not an
\* integer (e is 365.25/days here): a negative base gives nan, not an error
PowMinusOne(b, e, times) ==
    CASE b.k = "nan"  -> NaN
      [] b.k = "inf"  -> Inf
      [] b.k = "-inf" -> Inf
      [] b.n < 0      -> NaN
      [] b.n = 0      -> Rat(-times, 1)
      [] b.n = b.d    -> Zero
      [] OTHER        -> [k |-> "pow-1", b |-> b, e |-> e, times |-> times]

-----------------------------------------------------------------------------
(* A fetched price table: rows [date, close] in ascending date order, as   *)
(* the DataFrame yf.download returns (its DatetimeIndex and 'Close').      *)

Close(table, i) == table[i].close
Index(table, i) == table[i].date

\* A plausible slip: the Julian year used as 365 days.
years_of_365(days) == Rat(days, 365)

\* days / 365.25
years_of(days) == Rat(days * 4, 1461)

IndexError == [exc |-> "IndexError"]

\* pd.Timestamp(d): NaT for None; every comparison with NaT is False
AtOrAfter(table, d) ==
    {i \in 1..Len(table) : d # None /\ Index(table, i) >= d}
AtOrBefore(table, d) ==
    {i \in 1..Len(table) : d # None /\ Index(table, i) <= d}

Min(S) == CHOOSE x \in S : \A y \in S : x <= y
Max(S) == CHOOSE x \in S : \A y \in S : x >= y

\* main.py:23  (1 + total_return) ** (1 / years) - 1 if years > 0 else 0
cagr_of(total_return, years) ==
    IF years.n > 0
    THEN PowMinusOne(OnePlus(total_return), Inverse(years), 1)
    ELSE Zero

\* calculate_returns(data, start_date, end_date), main.py:16-24
calculate_returns(table, start, end) ==
    IF AtOrAfter(table, start) = {} \/ AtOrBefore(table, end) = {}
    THEN IndexError
    ELSE LET s == Min(AtOrAfter(table, start))
             e == Max(AtOrBefore(table, end))
             start_price  == Close(table, s)
             end_price    == Close(table, e)
             total_return == FloatDiv(end_price - start_price, start_price)
             years        == years_of(Index(table, e) - Index(table, s))
         IN  [total_return |-> total_return,
              cagr |-> cagr_of(total_return, years)]

\* the chart annotation's CAGR, main.py:150-154 (a percentage)
chart_cagr(table) ==
    LET start_price == Close(table, 1)
        end_price   == Close(table, Len(table))
        years       == years_of(Index(table, Len(table)) - Index(table, 1))
    IN  IF years.n > 0
        THEN PowMinusOne(FloatDiv(end_price, start_price), Inverse(years), 100)
        ELSE Zero

\* f"{x:.2%}": the value times 100, then printed like the chart's f"{x:.2f}%"
Percent(x) ==
    CASE x.k = "rat"   -> Rat(x.n * 100, x.d)
      [] x.k = "pow-1" -> [x EXCEPT !.times = x.times * 100]
      [] OTHER         -> x

-----------------------------------------------------------------------------
(* Market-cap formatting, main.py:207-217. A market cap is a non-negative  *)
(* whole number of dollars, kept as [hi, lo] = hi * 10^6 + lo with         *)
(* 0 <= lo < 10^6 so that 10^12 and more fit 32-bit integers.              *)

Cap(hi, lo) == [hi |-> hi, lo |-> lo]

\* ticker.info.get('marketCap', 0)
info_get_marketCap(info) ==
    IF "marketCap" \in DOMAIN info THEN info.marketCap ELSE Cap(0, 0)

AtLeast1e12(m) == m.hi >= 1000000
AtLeast1e9(m)  == m.hi >= 1000
AtLeast1e6(m)  == m.hi >= 1

\* m / 10^12, m / 10^9, m / 10^6 and m, in hundredths, rounded to nearest
\* as the format specifier .2f prints them
HundredthsT(m) ==
    m.hi \div 10000
    + (IF m.hi % 10000 > 5000 \/ (m.hi % 10000 = 5000 /\ m.lo > 0) THEN 1 ELSE 0)
HundredthsB(m) ==
    m.hi \div 10
    + (IF (m.hi % 10) * 1000000 + m.lo > 5000000 THEN 1 ELSE 0)
HundredthsM(m) ==
    (m.hi * 1000000 + m.lo) \div 10000
    + (IF (m.hi * 1000000 + m.lo) % 10000 > 5000 THEN 1 ELSE 0)
HundredthsUnit(m) == (m.hi * 1000000 + m.lo) * 100

\* the quotient lies exactly halfway between two hundredths: the digit that
\* .2f prints then depends on the binary rounding of the float quotient
IsTie(m) ==
    \/ AtLeast1e12(m) /\ m.hi % 10000 = 5000 /\ m.lo = 0
    \/ ~AtLeast1e12(m) /\ AtLeast1e9(m) /\ (m.hi % 10) * 1000000 + m.lo = 5000000
    \/ ~AtLeast1e9(m) /\ AtLeast1e6(m) /\ (m.hi * 1000000 + m.lo) % 10000 = 5000

\* f"{x:.2f}" of x = h / 100, h >= 0
Fixed2(h) ==
    ToString(h \div 100) \o "."
    \o (IF h % 100 < 10 THEN "0" ELSE "") \o ToString(h % 100)

\* A plausible slip: the thresholds tested smallest first, so that every cap
\* of a million or more ends in the 'M' tier.
format_smallest_first(market_cap) ==
    IF AtLeast1e6(market_cap) THEN Fixed2(HundredthsM(market_cap)) \o "M"
    ELSE IF AtLeast1e9(market_cap) THEN Fixed2(HundredthsB(market_cap)) \o "B"
    ELSE IF AtLeast1e12(market_cap) THEN Fixed2(HundredthsT(market_cap)) \o "T"
    ELSE Fixed2(HundredthsUnit(market_cap))

\* formatted_market_cap, main.py:210-217
format_market_cap(market_cap) ==
    IF AtLeast1e12(market_cap) THEN Fixed2(HundredthsT(market_cap)) \o "T"
    ELSE IF AtLeast1e9(market_cap) THEN Fixed2(HundredthsB(market_cap)) \o "B"
    ELSE IF AtLeast1e6(market_cap) THEN Fixed2(HundredthsM(market_cap)) \o "M"
    ELSE Fixed2(HundredthsUnit(market_cap))

-----------------------------------------------------------------------------
(* What the page shows and what the remote services are asked.             *)

Msg(kind, text, symbol) == [kind |-> kind, text |-> text, symbol |-> symbol]
Call(name, arg) == [call |-> name, arg |-> arg]

\* dict assignment d[k] = v
Put(d, k, v) == [x \in DOMAIN d \cup {k} |-> IF x = k THEN v ELSE d[x]]

Row(date, close) == [date |-> date, close |-> close]

\* first trading day of the history yf.download returns without a start
HistoryStart == Ord(1980, 12, 12)

\* Non-empty tables yf.download(symbol, start=start, end=end) can return:
\* rows dated from start (or the start of the history) up to the day before
\* end. One row, or a first and a last row with a rising or a falling price.
Tables(start, end) ==
    LET lo == IF start = None THEN HistoryStart ELSE start
        hi == end - 1
    IN  (IF lo <= hi THEN {<<Row(hi, 100)>>} ELSE {})
        \cup (IF lo < hi
              THEN {<<Row(lo, 100), Row(hi, 121)>>, <<Row(lo, 121), Row(hi, 100)>>}
              ELSE {})

\* get_company_name(symbol), main.py:38-43
get_company_name(symbol, env) ==
    IF env.raises THEN symbol
    ELSE IF "longName" \in DOMAIN env.info THEN env.info.longName ELSE symbol

\* A plausible slip: the filter keeping every requested symbol.
remove_nothing(symbols, d) == symbols

\* main.py:119  [symbol for symbol in selected_symbols if symbol in data]
remove_symbols_with_no_data(symbols, d) ==
    LET InData(symbol) == symbol \in DOMAIN d
    IN  SelectSeq(symbols, InData)

-----------------------------------------------------------------------------
(* The news step, main.py:239-289.                                         *)

NoExport == [offered |-> FALSE]

\* article.get(field, default)
article_get(article, field, default) ==
    IF field \in DOMAIN article THEN article[field] ELSE default

\* main.py:265
headline_of(article) ==
    IF "headline" \in DOMAIN article /\ "main" \in DOMAIN article.headline
    THEN article.headline.main
    ELSE "No headline available"

\* A plausible slip: the slice dropped, every article shown.
first_all(articles) == articles

\* articles[:5]
first_five(articles) == SubSeq(articles, 1, IF Len(articles) < 5 THEN Len(articles) ELSE 5)

\* what the loop of main.py:264-272 writes for one article
shown(article) ==
    [headline  |-> headline_of(article),
     relevance |-> article_get(article, "_score", "N/A"),
     published |-> article_get(article, "pub_date", "Date not available"),
     abstract  |-> article_get(article, "abstract", "No abstract available"),
     url       |-> article_get(article, "web_url", "#")]

\* the row main.py:273 appends to news_data
news_row(article) ==
    <<headline_of(article),
      article_get(article, "pub_date", "Date not available"),
      article_get(article, "abstract", "No abstract available"),
      article_get(article, "web_url", "#"),
      article_get(article, "_score", "N/A")>>

\* export_news_to_csv(news_data), main.py:33-36: a header line, then one
\* line per row, no index column
export_news_to_csv(news_data) ==
    [offered |-> TRUE,
     header  |-> <<"Headline", "Published Date", "Abstract", "URL", "Relevance">>,
     rows    |-> news_data]

\* The whole try block for one behaviour env of the news service: the
\* messages shown, the articles written, the export offered, and the value
\* the name data is left bound to (main.py:254 rebinds it).
news_step(env, d, company) ==
    CASE env.kind = "raise" ->
           [msgs |-> <<Msg("error", "Error fetching historical news", "")>>,
            shown |-> <<>>, export |-> NoExport, data |-> d]
      [] env.kind = "status" ->
           [msgs |-> <<Msg("error", "Error fetching news", "")>>,
            shown |-> <<>>, export |-> NoExport, data |-> d]
      [] env.kind = "notjson" ->
           [msgs |-> <<Msg("error", "Error fetching historical news", "")>>,
            shown |-> <<>>, export |-> NoExport, data |-> d]
      [] env.kind = "json" /\ "docs" \notin DOMAIN env.body ->
           [msgs |-> <<Msg("error", "Unexpected API response format", "")>>,
            shown |-> <<>>, export |-> NoExport, data |-> env.body]
      [] env.kind = "json" /\ "docs" \in DOMAIN env.body /\ env.body.docs = <<>> ->
           [msgs |-> <<Msg("info", "No news found", company)>>,
            shown |-> <<>>, export |-> NoExport, data |-> env.body]
      [] OTHER ->
           LET articles == first_five(env.body.docs)
           IN  [msgs |-> [i \in 1..Len(articles) |->
                            Msg("article", headline_of(articles[i]), "")]
                         \o <<Msg("download", "Download News Data", "")>>,
                shown |-> [i \in 1..Len(articles) |-> shown(articles[i])],
                export |-> export_news_to_csv(
                             [i \in 1..Len(articles) |-> news_row(articles[i])]),
                data |-> env.body]

-----------------------------------------------------------------------------
(* One run of main(), main.py:45-289.                                      *)

\* main.py:45-95: the widgets are read and the range is resolved
ResolveRange ==
    /\ pc = "start"
    /\ LET r == get_date_range(selected_range, today, custom_start, custom_end)
       IN  /\ start_date' = r[1]
           /\ end_date' = r[2]
    /\ pc' = "fetch"
    /\ UNCHANGED <<today, selected_range, custom_start, custom_end,
                   selected_symbols, default_symbol, fetched, data, outcomes,
                   ui, remote, chart, exports, metrics, NYT_API_KEY, news_env,
                   info_env, displayed, news_export, company_name, fn_in, fn_out>>

FetchUnchanged ==
    UNCHANGED <<today, selected_range, custom_start, custom_end, start_date,
                end_date, selected_symbols, default_symbol, chart, exports,
                metrics, NYT_API_KEY, news_env, info_env, displayed,
                news_export, company_name, fn_in, fn_out, pc>>

Fetching == pc = "fetch" /\ fetched < Len(selected_symbols)

Downloaded(symbol) ==
    Append(remote, Call("yf.download", <<symbol, start_date, end_date>>))

\* main.py:100-116, one iteration: yf.download raises
FetchRaises ==
    /\ Fetching
    /\ LET symbol == selected_symbols[fetched + 1]
       IN  /\ remote' = Downloaded(symbol)
           /\ ui' = Append(ui, Msg("error", "Error fetching data", symbol))
           /\ outcomes' = Append(outcomes, [symbol |-> symbol, got |-> "raise"])
    /\ fetched' = fetched + 1
    /\ UNCHANGED data
    /\ FetchUnchanged

\* main.py:100-116, one iteration: yf.download returns an empty table
FetchEmpty ==
    /\ Fetching
    /\ LET symbol == selected_symbols[fetched + 1]
       IN  /\ remote' = Downloaded(symbol)
           /\ ui' = Append(ui, Msg("warning", "No data available", symbol))
           /\ outcomes' = Append(outcomes, [symbol |-> symbol, got |-> "empty"])
    /\ fetched' = fetched + 1
    /\ UNCHANGED data
    /\ FetchUnchanged

\* main.py:100-116, one iteration: yf.download returns a non-empty table
FetchTable ==
    /\ Fetching
    /\ \E stock_data \in Tables(start_date, end_date) :
        LET symbol == selected_symbols[fetched + 1]
        IN  /\ remote' = Downloaded(symbol)
            /\ data' = Put(data, symbol, stock_data)
            /\ outcomes' = Append(outcomes, [symbol |-> symbol, got |-> "table"])
    /\ fetched' = fetched + 1
    /\ UNCHANGED ui
    /\ FetchUnchanged

\* main.py:118-123: nothing was fetched, the run reports it and returns
NoData ==
    /\ pc = "fetch" /\ fetched = Len(selected_symbols)
    /\ DOMAIN data = {}
    /\ selected_symbols' = remove_symbols_with_no_data(selected_symbols, data)
    /\ ui' = Append(ui, Msg("error", "Unable to fetch data for any of the selected symbols", ""))
    /\ pc' = "done"
    /\ UNCHANGED <<today, selected_range, custom_start, custom_end, start_date,
                   end_date, default_symbol, fetched, data, outcomes, remote,
                   chart, exports, metrics, NYT_API_KEY, news_env, info_env,
                   displayed, news_export, company_name, fn_in, fn_out>>

\* main.py:118-125: the symbols without data are removed and the company
\* name of the primary symbol is looked up
RemoveAndName ==
    /\ pc = "fetch" /\ fetched = Len(selected_symbols)
    /\ DOMAIN data # {}
    /\ selected_symbols' = remove_symbols_with_no_data(selected_symbols, data)
    /\ remote' = Append(remote, Call("yf.Ticker.info", <<default_symbol>>))
    /\ company_name' = get_company_name(default_symbol, info_env)
    /\ pc' = "chart"
    /\ UNCHANGED <<today, selected_range, custom_start, custom_end, start_date,
                   end_date, default_symbol, fetched, data, outcomes, ui,
                   chart, exports, metrics, NYT_API_KEY, news_env, info_env,
                   displayed, news_export, fn_in, fn_out>>

\* main.py:127-186: one trace and one CAGR annotation per symbol
CreateChart ==
    /\ pc = "chart"
    /\ chart' = [i \in 1..Len(selected_symbols) |->
                    [symbol |-> selected_symbols[i],
                     cagr   |-> chart_cagr(data[selected_symbols[i]])]]
    /\ ui' = Append(ui, Msg("chart", "Stock Price Comparison", ""))
    /\ pc' = "export"
    /\ UNCHANGED <<today, selected_range, custom_start, custom_end, start_date,
                   end_date, selected_symbols, default_symbol, fetched, data,
                   outcomes, remote, exports, metrics, NYT_API_KEY, news_env,
                   info_env, displayed, news_export, company_name, fn_in, fn_out>>

\* main.py:188-197: one download button per symbol
ExportChartData ==
    /\ pc = "export"
    /\ exports' = [i \in 1..Len(selected_symbols) |->
                      [symbol |-> selected_symbols[i],
                       csv    |-> data[selected_symbols[i]]]]
    /\ ui' = ui \o [i \in 1..Len(selected_symbols) |->
                      Msg("download", "Download Data", selected_symbols[i])]
    /\ pc' = "metrics"
    /\ UNCHANGED <<today, selected_range, custom_start, custom_end, start_date,
                   end_date, selected_symbols, default_symbol, fetched, data,
                   outcomes, remote, chart, metrics, NYT_API_KEY, news_env,
                   info_env, displayed, news_export, company_name, fn_in, fn_out>>

MetricsUnchanged ==
    UNCHANGED <<today, selected_range, custom_start, custom_end, start_date,
                end_date, selected_symbols, default_symbol, fetched, data,
                outcomes, chart, exports, NYT_API_KEY, news_env, info_env,
                displayed, news_export, company_name, fn_in, fn_out, pc>>

InMetrics == pc = "metrics" /\ Len(metrics) < Len(selected_symbols)

\* main.py:201-228, one iteration that reaches the four st.metric calls
MetricsShown ==
    /\ InMetrics
    /\ LET symbol == selected_symbols[Len(metrics) + 1]
           stock_data == data[symbol]
           returns == calculate_returns(stock_data, start_date, end_date)
       IN  /\ returns # IndexError
           /\ ~info_env.raises
           /\ remote' = Append(remote, Call("yf.Ticker.info", <<symbol>>))
           /\ metrics' = Append(metrics,
                [symbol |-> symbol, error |-> FALSE,
                 current_price |-> Close(stock_data, Len(stock_data)),
                 performance |-> Percent(returns.total_return),
                 cagr |-> Percent(returns.cagr),
                 market_cap |-> format_market_cap(info_get_marketCap(info_env.info))])
           /\ ui' = Append(ui, Msg("metric", "Returns and Key Metrics", symbol))
    /\ MetricsUnchanged

\* main.py:201-230, one iteration that ends in the except branch:
\* calculate_returns raised, or it did not and ticker.info raised
MetricsError ==
    /\ InMetrics
    /\ LET symbol == selected_symbols[Len(metrics) + 1]
           returns == calculate_returns(data[symbol], start_date, end_date)
       IN  /\ returns = IndexError \/ info_env.raises
           /\ remote' = IF returns = IndexError THEN remote
                        ELSE Append(remote, Call("yf.Ticker.info", <<symbol>>))
           /\ metrics' = Append(metrics, [symbol |-> symbol, error |-> TRUE])
           /\ ui' = Append(ui, Msg("write", "Error calculating metrics", symbol))
    /\ MetricsUnchanged

\* main.py:232-289: the date widget, the request and what is shown of it
NewsStep ==
    /\ pc = "metrics" /\ Len(metrics) = Len(selected_symbols)
    /\ LET r == news_step(news_env, data, company_name)
       IN  /\ ui' = ui \o r.msgs
           /\ displayed' = r.shown
           /\ news_export' = r.export
           /\ data' = r.data
    /\ remote' = Append(remote, Call("requests.get", <<NYT_API_KEY, company_name, today>>))
    /\ pc' = "done"
    /\ UNCHANGED <<today, selected_range, custom_start, custom_end, start_date,
                   end_date, selected_symbols, default_symbol, fetched,
                   outcomes, chart, exports, metrics, NYT_API_KEY, news_env,
                   info_env, company_name, fn_in, fn_out>>

Next ==
    \/ ResolveRange
    \/ FetchRaises
    \/ FetchEmpty
    \/ FetchTable
    \/ NoData
    \/ RemoveAndName
    \/ CreateChart
    \/ ExportChartData
    \/ MetricsShown
    \/ MetricsError
    \/ NewsStep

-----------------------------------------------------------------------------
(* The runs and inputs that are checked.                                   *)

MaxSymbols == 2
MaxArticles == 6
MaxRows == 2

Symbols == {"AAPL", "MSFT"}

\* the primary symbol (its widget's default, main.py:55) followed by the
\* additional ones, which may repeat a symbol (main.py:56-57)
SymbolLists ==
    {l \in UNION {[1..n -> Symbols] : n \in 1..MaxSymbols} : l[1] = "AAPL"}

KeyNone == "None"
Keys == {KeyNone, "key"}

Today == Ord(2024, 3, 15)
Todays ==
    {Ord(2023, 7, 15), Ord(2024, 1, 1), Ord(2024, 2, 29), Ord(2024, 3, 1),
     Ord(2024, 3, 15), Ord(2024, 12, 31), Ord(2025, 3, 31), Ord(2100, 3, 1)}

\* dates the two 'Custom' widgets can be set to; the first and the last are
\* their defaults (main.py:91-92)
CustomDates(now) == {now - 365, now}

InfoFull == [longName |-> "Apple Inc.", marketCap |-> Cap(2300000, 0)]
InfoBare == [symbol |-> "AAPL"]
InfoEnvs ==
    {[raises |-> TRUE], [raises |-> FALSE, info |-> InfoFull],
     [raises |-> FALSE, info |-> InfoBare]}

ArticleA ==
    [headline |-> [main |-> "h1"], pub_date |-> "d1", abstract |-> "a1",
     web_url |-> "u1", _score |-> "s1"]
ArticleB ==
    [headline |-> [kicker |-> "k2"], pub_date |-> "d2", web_url |-> "u2"]
ArticleC == [abstract |-> "a3", _score |-> "s3"]
Articles == {ArticleA, ArticleB, ArticleC}

Docs(n) == UNION {[1..k -> Articles] : k \in 0..n}

NewsFailures ==
    {[kind |-> "raise"], [kind |-> "status", code |-> 401],
     [kind |-> "notjson"], [kind |-> "json", body |-> [fault |-> "x"]]}
NewsEnvs(n) ==
    NewsFailures \cup {[kind |-> "json", body |-> [docs |-> d]] : d \in Docs(n)}
NewsFew ==
    {[kind |-> "status", code |-> 401],
     [kind |-> "json", body |-> [docs |-> <<ArticleA, ArticleB>>]]}

NoValue == <<>>

InitRun(todays, lists, ranges, news, infos) ==
    /\ pc = "start"
    /\ today \in todays
    /\ selected_range \in ranges
    /\ \/ /\ selected_range = "Custom"
          /\ custom_start \in CustomDates(today)
          /\ custom_end \in CustomDates(today)
       \/ /\ selected_range # "Custom"
          /\ custom_start = today - 365
          /\ custom_end = today
    /\ start_date = None
    /\ end_date = None
    /\ selected_symbols \in lists
    /\ default_symbol = selected_symbols[1]
    /\ fetched = 0
    /\ data = <<>>
    /\ outcomes = <<>>
    /\ ui = <<>>
    /\ remote = <<>>
    /\ chart = <<>>
    /\ exports = <<>>
    /\ metrics = <<>>
    /\ NYT_API_KEY \in Keys
    /\ news_env \in news
    /\ info_env \in infos
    /\ displayed = <<>>
    /\ news_export = NoExport
    /\ company_name = ""
    /\ fn_out = NoValue

\* one run of main() for every range, symbol list and fetch outcome
Init ==
    /\ InitRun({Today}, SymbolLists, RangeNames, NewsFew, InfoEnvs)
    /\ fn_in = NoValue
Spec == Init /\ [][Next]_vars

\* one run of main() on one symbol for every answer of the news service
InitNews ==
    /\ InitRun({Today}, {<<"AAPL">>}, {"YTD"}, NewsEnvs(MaxArticles), InfoEnvs)
    /\ fn_in = NoValue
SpecNews == InitNews /\ [][Next]_vars

\* get_date_range alone, on many days
InitDateRange ==
    /\ InitRun(Todays, {<<"AAPL">>}, RangeNames, {[kind |-> "raise"]}, {[raises |-> TRUE]})
    /\ fn_in = NoValue
SpecDateRange == InitDateRange /\ [][ResolveRange]_vars

-----------------------------------------------------------------------------
(* The two CAGR computations on arbitrary tables.                          *)

FirstDay == Ord(2023, 1, 2)
ReturnDates == {FirstDay, FirstDay + 1, FirstDay + 200, FirstDay + 366}
ReturnCloses == {-50, 0, 100, 121}

Ascending(table) ==
    \A i \in 1..Len(table) - 1 : table[i].date < table[i + 1].date

ReturnTables ==
    {t \in UNION {[1..n -> [date : ReturnDates, close : ReturnCloses]] :
                    n \in 1..MaxRows} : Ascending(t)}

InitIdle ==
    /\ InitRun({Today}, {<<"AAPL">>}, {"YTD"}, {[kind |-> "raise"]}, {[raises |-> TRUE]})
    /\ NYT_API_KEY = KeyNone

InitReturns ==
    /\ InitIdle
    /\ fn_in \in [data : ReturnTables,
                  start_date : {None, FirstDay, FirstDay + 200},
                  end_date : {FirstDay + 1, FirstDay + 366}]

IdleRun ==
    UNCHANGED <<today, selected_range, custom_start, custom_end, start_date,
                end_date, selected_symbols, default_symbol, fetched, data,
                outcomes, ui, remote, chart, exports, metrics, NYT_API_KEY,
                news_env, info_env, displayed, news_export, company_name>>

\* calculate_returns and the chart's CAGR applied to one table
ComputeReturns ==
    /\ pc = "start"
    /\ fn_out' = [returns |-> calculate_returns(fn_in.data, fn_in.start_date,
                                                fn_in.end_date),
                  chart |-> chart_cagr(fn_in.data)]
    /\ pc' = "computed"
    /\ UNCHANGED fn_in
    /\ IdleRun

SpecReturns == InitReturns /\ [][ComputeReturns]_vars

-----------------------------------------------------------------------------
(* The market-cap formatting on many market caps.                          *)

CapHis == {0, 1, 4, 12, 999, 1000, 2300, 999994, 999999, 1000000, 1500000, 9999999}
CapLos == {0, 1, 500, 4999, 5001, 100000, 500000, 999999}

Infos ==
    {InfoBare}
    \cup {[longName |-> "Apple Inc.", marketCap |-> Cap(hi, lo)] :
            hi \in CapHis, lo \in CapLos}

\* main.py:209-217 applied to one ticker.info
FormatMarketCap ==
    /\ pc = "start"
    /\ fn_out' = format_market_cap(info_get_marketCap(fn_in))
    /\ pc' = "formatted"
    /\ UNCHANGED fn_in
    /\ IdleRun

InitMarketCap ==
    /\ InitIdle
    /\ fn_in \in {info \in Infos : ~IsTie(info_get_marketCap(info))}

SpecMarketCap == InitMarketCap /\ [][FormatMarketCap]_vars

-----------------------------------------------------------------------------
(* Properties.                                                             *)

Requested == [i \in 1..Len(outcomes) |-> outcomes[i].symbol]
GotTable(o) == o.got = "table"
WithTable == [i \in 1..Len(SelectSeq(outcomes, GotTable)) |->
                SelectSeq(outcomes, GotTable)[i].symbol]
SymbolsOf(seq) == [i \in 1..Len(seq) |-> seq[i].symbol]
LoopOver == pc \notin {"start", "fetch"}
Called(name) == \E i \in 1..Len(remote) : remote[i].call = name
NewsDone == pc = "done" /\ Called("requests.get")

\* C1: in one run, every symbol whose fetch raised or came back empty gets
\* an error or a warning and is left out, every symbol is attempted, and the
\* chart, the export and the metrics are made for exactly the symbols whose
\* fetch returned a table, in their original order.
C1_SkipAndContinue ==
    LoopOver =>
        /\ Len(outcomes) = fetched
        /\ \A i \in 1..Len(outcomes) :
             outcomes[i].got # "table" =>
               \E j \in 1..Len(ui) :
                 ui[j].kind \in {"error", "warning"} /\ ui[j].symbol = outcomes[i].symbol
        /\ selected_symbols = WithTable
        /\ NewsDone =>
             /\ SymbolsOf(chart) = WithTable
             /\ SymbolsOf(exports) = WithTable
             /\ SymbolsOf(metrics) = WithTable

\* C2: once a 'Custom' range with start after end has been resolved, no
\* remote call is ever issued (the run is rejected with a message instead).
C2_RejectedBeforeFetch ==
    (pc # "start" /\ selected_range = "Custom" /\ start_date > end_date) =>
        remote = <<>>


\* the rows calculate_returns takes its two prices from
FirstRow == fn_in.data[Min(AtOrAfter(fn_in.data, fn_in.start_date))]
LastRow == fn_in.data[Max(AtOrBefore(fn_in.data, fn_in.end_date))]
RowsFound ==
    /\ AtOrAfter(fn_in.data, fn_in.start_date) # {}
    /\ AtOrBefore(fn_in.data, fn_in.end_date) # {}
ChartFirst == fn_in.data[1]
ChartLast == fn_in.data[Len(fn_in.data)]

\* C3: both CAGR computations return 0 in every degenerate case: a span
\* between the first and the last data point that is not positive, a start
\* price that is not positive, or an end price that is not positive.
C3_DegenerateIsZero ==
    pc = "computed" =>
        /\ (RowsFound /\ (\/ LastRow.date - FirstRow.date <= 0
                          \/ FirstRow.close <= 0
                          \/ LastRow.close <= 0))
             => fn_out.returns.cagr = Zero
        /\ (\/ ChartLast.date - ChartFirst.date <= 0
            \/ ChartFirst.close <= 0
            \/ ChartLast.close <= 0)
             => fn_out.chart = Zero

\* (end/start) ** (365.25/days) - 1, as a value
Annualized(start_price, end_price, days) ==
    IF end_price = start_price THEN Zero
    ELSE [k |-> "pow-1", b |-> Rat(end_price, start_price),
          e |-> Rat(1461, 4 * days), times |-> 1]

\* C4: for a positive start price, a positive end price and a positive
\* number of days between the first and the last data point,
\* calculate_returns returns (end - start)/start and
\* (end/start) ** (1/years) - 1 with years = days/365.25, which is
\* (end/start) ** (365.25/days) - 1, under a year and over a year alike.
C4_ReturnsFormula ==
    (/\ pc = "computed"
     /\ RowsFound
     /\ FirstRow.close > 0
     /\ LastRow.close > 0
     /\ LastRow.date - FirstRow.date > 0)
    => /\ fn_out.returns.total_return
            = Rat(LastRow.close - FirstRow.close, FirstRow.close)
       /\ fn_out.returns.cagr
            = Annualized(FirstRow.close, LastRow.close,
                         LastRow.date - FirstRow.date)

\* C4 happens: a rise from 100 to 121 over 200 days, annualized
C4_Witness ==
    /\ pc = "computed"
    /\ RowsFound
    /\ FirstRow.close = 100 /\ LastRow.close = 121
    /\ LastRow.date - FirstRow.date = 200
    /\ fn_out.returns.total_return = Rat(21, 100)
    /\ fn_out.returns.cagr
         = [k |-> "pow-1", b |-> Rat(121, 100), e |-> Rat(1461, 800), times |-> 1]


\* the market cap that is formatted: the one in ticker.info, or 0
CapIn == IF "marketCap" \in DOMAIN fn_in THEN fn_in.marketCap ELSE Cap(0, 0)

\* h hundredths is the two-decimal value nearest to cap / 10^12, / 10^9, / 10^6
NearestT(cap, h) ==
    LET d == cap.hi - h * 10000
    IN  d < 5000 /\ (d > -5000 \/ (d = -5000 /\ cap.lo > 0))
NearestB(cap, h) ==
    LET r == (cap.hi - h * 10) * 1000000 + cap.lo
    IN  -5000000 < r /\ r < 5000000
NearestM(cap, h) ==
    LET r == cap.hi * 1000000 + cap.lo - h * 10000
    IN  -5000 < r /\ r < 5000

\* C5: the market cap is printed in the tier of the first threshold it
\* reaches (10^12 'T', 10^9 'B', 10^6 'M', else no suffix), divided by that
\* threshold and with two decimals; 10^12, 10^9 and 10^6 themselves fall in
\* the larger tier, and a missing market cap is printed as 0.00.
C5_MarketCapTiers ==
    pc = "formatted" =>
        /\ CapIn.hi >= 1000000 =>
             \E h \in {CapIn.hi \div 10000, CapIn.hi \div 10000 + 1} :
                NearestT(CapIn, h) /\ fn_out = Fixed2(h) \o "T"
        /\ (CapIn.hi < 1000000 /\ CapIn.hi >= 1000) =>
             \E h \in {CapIn.hi \div 10, CapIn.hi \div 10 + 1} :
                NearestB(CapIn, h) /\ fn_out = Fixed2(h) \o "B"
        /\ (CapIn.hi < 1000 /\ CapIn.hi >= 1) =>
             \E h \in {CapIn.hi * 100 + CapIn.lo \div 10000,
                       CapIn.hi * 100 + CapIn.lo \div 10000 + 1} :
                NearestM(CapIn, h) /\ fn_out = Fixed2(h) \o "M"
        /\ CapIn.hi < 1 => fn_out = ToString(CapIn.lo) \o ".00"
        /\ CapIn = Cap(1500000, 0) => fn_out = "1.50T"
        /\ CapIn = Cap(2300, 0) => fn_out = "2.30B"
        /\ CapIn = Cap(4, 100000) => fn_out = "4.10M"
        /\ CapIn = Cap(0, 500) => fn_out = "500.00"
        /\ CapIn = Cap(1000000, 0) => fn_out = "1.00T"
        /\ CapIn = Cap(1000, 0) => fn_out = "1.00B"
        /\ CapIn = Cap(1, 0) => fn_out = "1.00M"
        /\ CapIn = Cap(999999, 999999) => fn_out = "1000.00B"
        /\ CapIn = Cap(0, 999999) => fn_out = "999999.00"
        /\ "marketCap" \notin DOMAIN fn_in => fn_out = "0.00"

\* C5 happens: 1.5e12 has been formatted
C5_Witness ==
    /\ pc = "formatted"
    /\ "marketCap" \in DOMAIN fn_in
    /\ fn_in.marketCap = Cap(1500000, 0)
    /\ fn_out = "1.50T"

\* the fixed day offsets of the named windows
OffsetDays ==
    [r \in {"1D", "5D", "6M", "1 Year", "5 Years", "10 Years", "15 Years",
            "20 Years", "30 Years"} |->
        CASE r = "1D" -> 1
          [] r = "5D" -> 5
          [] r = "6M" -> 180
          [] r = "1 Year" -> 365
          [] r = "5 Years" -> 1825
          [] r = "10 Years" -> 3650
          [] r = "15 Years" -> 5475
          [] r = "20 Years" -> 7300
          [] r = "30 Years" -> 10950]

\* C7: get_date_range returns, for every named window but 'Maximum' and
\* 'Custom', end = today and a start that is not after it (today minus the
\* window's fixed number of days; the first day of today's month for 'MTD';
\* 1 January of today's year for 'YTD'); for 'Maximum' no start; for 'Custom'
\* the two dates the user supplied.
C7_DateRange ==
    pc = "fetch" =>
        /\ selected_range \notin {"Maximum", "Custom"} =>
             /\ end_date = today
             /\ start_date # None
             /\ start_date <= end_date
        /\ selected_range \in DOMAIN OffsetDays =>
             today - start_date = OffsetDays[selected_range]
        /\ selected_range = "MTD" =>
             YMD(start_date) = [YMD(today) EXCEPT !.day = 1]
        /\ selected_range = "YTD" =>
             YMD(start_date) = [YMD(today) EXCEPT !.month = 1, !.day = 1]
        /\ selected_range = "Maximum" => start_date = None /\ end_date = today
        /\ selected_range = "Custom" =>
             start_date = custom_start /\ end_date = custom_end

\* C7 happens: month-to-date resolved on 29 February 2024
C7_Witness ==
    /\ pc = "fetch"
    /\ selected_range = "MTD"
    /\ today = Ord(2024, 2, 29)
    /\ start_date = Ord(2024, 2, 1)
    /\ end_date = today


\* C6: with no NYT_API_KEY in the environment the run shows a notice at
\* startup, that is before the first symbol is fetched, and then goes on
\* without a crash.
C6_StartupNotice ==
    (NYT_API_KEY = KeyNone /\ pc # "start") =>
        \E j \in 1..Len(ui) :
            ui[j].kind \in {"warning", "info"} /\ ui[j].symbol = ""

\* the table that was fetched for the i-th symbol of the metrics step
TableAt(i) == exports[i].csv

\* C8: for every range and every symbol with a fetched table, when the
\* metadata call succeeds the metrics step does not end in its error branch,
\* shows the performance (last close - first close)/first close and shows
\* the CAGR that is annotated on the symbol's chart line.
C8_MetricsMatchChart ==
    \A i \in 1..Len(metrics) :
        ~info_env.raises =>
            /\ ~metrics[i].error
            /\ metrics[i].performance
                 = Percent(Rat(Close(TableAt(i), Len(TableAt(i))) - Close(TableAt(i), 1),
                               Close(TableAt(i), 1)))
            /\ metrics[i].cagr = chart[i].cagr

NoTable == \A i \in 1..Len(outcomes) : outcomes[i].got # "table"

\* C9: after the fetch loop every symbol the chart, the export and the
\* metrics touch has a non-empty table in data; and when no symbol has data
\* the run reports an error and stops: no chart, no export, no metrics, no
\* company-name lookup and no news request.
C9_DataForEverySymbol ==
    /\ pc \in {"chart", "export", "metrics"} =>
         \A i \in 1..Len(selected_symbols) :
            /\ selected_symbols[i] \in DOMAIN data
            /\ Len(data[selected_symbols[i]]) >= 1
    /\ \A i \in 1..Len(chart) :
         \E j \in 1..Len(outcomes) :
            outcomes[j].symbol = chart[i].symbol /\ outcomes[j].got = "table"
    /\ \A i \in 1..Len(exports) :
         /\ Len(exports[i].csv) >= 1
         /\ \E j \in 1..Len(outcomes) :
              outcomes[j].symbol = exports[i].symbol /\ outcomes[j].got = "table"
    /\ \A i \in 1..Len(metrics) :
         \E j \in 1..Len(outcomes) :
            outcomes[j].symbol = metrics[i].symbol /\ outcomes[j].got = "table"
    /\ (LoopOver /\ NoTable) =>
         /\ pc = "done"
         /\ ui[Len(ui)] = Msg("error", "Unable to fetch data for any of the selected symbols", "")
         /\ \A j \in 1..Len(ui) : ui[j].kind \notin {"chart", "download", "metric", "article"}
         /\ chart = <<>> /\ exports = <<>> /\ metrics = <<>>
         /\ ~Called("yf.Ticker.info")
         /\ ~Called("requests.get")

\* C9 happens: two symbols were tried, neither has data, the run has stopped
C9_Witness ==
    /\ pc = "done"
    /\ Len(outcomes) = 2
    /\ NoTable
    /\ chart = <<>>
    /\ ~Called("requests.get")

\* the defaults of the news step for the fields an article lacks
Expected(article) ==
    [headline  |-> IF "headline" \in DOMAIN article /\ "main" \in DOMAIN article.headline
                   THEN article.headline.main ELSE "No headline available",
     published |-> IF "pub_date" \in DOMAIN article THEN article.pub_date
                   ELSE "Date not available",
     abstract  |-> IF "abstract" \in DOMAIN article THEN article.abstract
                   ELSE "No abstract available",
     url       |-> IF "web_url" \in DOMAIN article THEN article.web_url ELSE "#",
     relevance |-> IF "_score" \in DOMAIN article THEN article._score ELSE "N/A"]

ListOfArticles ==
    /\ news_env.kind = "json"
    /\ "docs" \in DOMAIN news_env.body

\* C10: a response that is not a 200 gives an error and no article; a 200
\* with n articles shows the first min(n, 5) of them in order and offers
\* exactly those for export, one row (headline, published date, abstract,
\* URL, relevance) each, with the defaults for missing fields; an empty list
\* offers no export; an exception in the step is shown as an error and the
\* run ends normally.
C10_NewsStep ==
    NewsDone =>
        /\ news_env.kind \in {"status", "raise", "notjson"} =>
             /\ ui[Len(ui)].kind = "error"
             /\ displayed = <<>>
             /\ news_export = NoExport
             /\ \A j \in 1..Len(ui) : ui[j].kind # "article"
        /\ (ListOfArticles /\ news_env.body.docs = <<>>) =>
             /\ displayed = <<>>
             /\ news_export = NoExport
        /\ (ListOfArticles /\ news_env.body.docs # <<>>) =>
             LET docs == news_env.body.docs
                 n == IF Len(docs) < 5 THEN Len(docs) ELSE 5
             IN  /\ Len(displayed) = n
                 /\ \A i \in 1..n : displayed[i] = Expected(docs[i])
                 /\ Len(SelectSeq(ui, LAMBDA m : m.kind = "article")) = n
                 /\ news_export.offered
                 /\ news_export.header
                      = <<"Headline", "Published Date", "Abstract", "URL", "Relevance">>
                 /\ Len(news_export.rows) = n
                 /\ \A i \in 1..n :
                      news_export.rows[i]
                        = <<displayed[i].headline, displayed[i].published,
                            displayed[i].abstract, displayed[i].url,
                            displayed[i].relevance>>

\* C10 happens: six articles came back, five are shown and exported
C10_Witness ==
    /\ NewsDone
    /\ ListOfArticles
    /\ Len(news_env.body.docs) = 6
    /\ Len(displayed) = 5
    /\ news_export.offered
    /\ Len(news_export.rows) = 5

====
